---- MODULE Spec2Model ----
(***************************************************************************)
(* flask-securest: the request-authentication engine of rest_security.py   *)
(* (credential extraction, provider chain, request identity, unauthorized  *)
(* handling) and the token provider of authentication_providers/token.py.  *)
(*                                                                         *)
(* Python values are records tagged by "kind"; a Python string is a        *)
(* sequence of one-character strings where its content is processed        *)
(* (the decoded Basic credentials) and a TLA+ string where it is only      *)
(* compared (names, usernames, exception messages).                        *)
(***************************************************************************)
EXTENDS Integers, Sequences, FiniteSets, TLC

\* ------------------------------------------------------------------ bounds
\* Largest value of the wall clock (seconds).
MaxClock == 3
\* The expires_in a TokenAuthenticator is constructed with (seconds).
ExpiresIn == 1
\* Largest number of auth_required wrappers stacked on one endpoint.
MaxDepth == 2

\* Worker threads of the host server.
Threads == {1, 2}
\* Names providers are registered under.
ProviderNames == {"basic", "token"}
\* Usernames of user records; "" is a record whose username is empty.
UserNames == {"alice", "bob", "carol", ""}
\* Usernames the user store resolves (userstore.get_user returns a user).
StoreUsers == {"alice", "bob"}
\* Request paths; the bypass predicate whitelists "/health".
Paths == {"/health", "/api"}

\* ------------------------------------------------------- program constants
AUTH_HEADER_NAME == "Authorization"
AUTH_TOKEN_HEADER_NAME == "Authentication-Token"
BASIC_AUTH_PREFIX == "Basic"
USERNAME_FIELD == "username"
\* The signing key the TokenAuthenticator is constructed with, and a key it
\* is not constructed with.
SecretKey == "server-key"
OtherKey == "other-key"

\* ------------------------------------------------------------ Python values
None == [kind |-> "None"]
Str(s) == [kind |-> "str", s |-> s]
\* models.User: a user record with a username.
User(n) == [kind |-> "User", username |-> n]
\* A models.UserModel subclass instance that defines no username attribute.
UserModelOnly == [kind |-> "UserModel"]
\* The request context has no attribute "user".
NoAttr == [kind |-> "NoAttr"]

\* Python truthiness of the values above.
Truthy(v) ==
    CASE v.kind = "None" -> FALSE
      [] v.kind = "str" -> Len(v.s) > 0
      [] v.kind = "absent" -> FALSE
      [] OTHER -> TRUE

\* ------------------------------------------------------------------ strings
\* str.split(sep): the segments of s between the occurrences of sep.
RECURSIVE SplitFrom(_, _, _, _)
SplitFrom(s, sep, i, cur) ==
    IF i > Len(s) THEN <<cur>>
    ELSE IF s[i] = sep THEN <<cur>> \o SplitFrom(s, sep, i + 1, <<>>)
    ELSE SplitFrom(s, sep, i + 1, Append(cur, s[i]))

split(s, sep) == SplitFrom(s, sep, 1, <<>>)

\* ------------------------------------------------------------------ headers
Absent == [kind |-> "absent"]
\* An Authorization header: its scheme prefix ("" when it has none), whether
\* the credentials after the prefix base64-decode, and the decoded text.
BasicHeader(scheme, b64ok, text) ==
    [kind |-> "basic", scheme |-> scheme, b64ok |-> b64ok, text |-> text]

\* auth_header.replace(BASIC_AUTH_PREFIX + ' ', '', 1)
StripBasicPrefix(header) ==
    IF header.scheme = BASIC_AUTH_PREFIX THEN [header EXCEPT !.scheme = ""] ELSE header

\* request.headers.get(name)
HeaderGet(headers, name) ==
    IF name \in DOMAIN headers
    THEN (IF headers[name].kind = "absent" THEN None ELSE headers[name])
    ELSE None

Headers(auth, tok) ==
    (AUTH_HEADER_NAME :> auth) @@ (AUTH_TOKEN_HEADER_NAME :> tok)

\* -------------------------------------------------------------- extraction
Raised(exc) == [ok |-> FALSE, exc |-> exc]
Returned(v) == [ok |-> TRUE, value |-> v]

AuthInfo(user_id, password, token) ==
    [user_id |-> user_id, password |-> password, token |-> token]

\* get_auth_info_from_request, given the two configured header names ("" is
\* a name that is switched off) and the request's headers.
get_auth_info_from_request(auth_header_name, auth_token_header_name, headers) ==
    LET token == IF auth_token_header_name # ""
                 THEN HeaderGet(headers, auth_token_header_name)
                 ELSE None
    IN  IF auth_header_name = ""
        THEN \* auth_header is never assigned: the test below reads it
             Raised("UnboundLocalError")
        ELSE
        LET auth_header == HeaderGet(headers, auth_header_name)
        IN  IF ~Truthy(auth_header) /\ ~Truthy(token)
            THEN Raised("headers not found")
            ELSE IF ~Truthy(auth_header)
            THEN Returned(AuthInfo(None, None, token))
            ELSE IF ~StripBasicPrefix(auth_header).b64ok
            THEN \* base64_decode raised TypeError: pass
                 Returned(AuthInfo(None, None, token))
            ELSE LET api_key_parts == split(StripBasicPrefix(auth_header).text, ":")
                 IN  IF Len(api_key_parts) < 2
                     THEN Raised("IndexError")
                     ELSE Returned(AuthInfo(Str(api_key_parts[1]),
                                            Str(api_key_parts[2]), token))

\* ------------------------------------------------ TimedJSONWebSignatureSerializer
\* The signature the serializer computes under a key over the payload and
\* the header (iat, exp). Only the holder of the key can compute it.
Sign(key, payload, iat, exp) ==
    [key |-> key, payload |-> payload, iat |-> iat, exp |-> exp]

\* serializer.dumps(payload) at time now: the header carries the issue time
\* and the expiry time now + expires_in, and all of it is signed.
dumps(key, expires_in, payload, now) ==
    [kind |-> "jws", payload |-> payload, iat |-> now, exp |-> now + expires_in,
     sig |-> Sign(key, payload, now, now + expires_in)]

\* serializer.loads(token) at time now: the signature is verified first, and
\* the header's exp is compared with the clock only for a verified token.
loadsNoSignatureCheck(key, token, now) ==
    IF token.kind # "jws" THEN Raised("BadSignature")
    ELSE IF token.exp < now THEN Raised("SignatureExpired")
    ELSE Returned(token.payload)

loadsExpiresEarly(key, token, now) ==
    IF token.kind # "jws" THEN Raised("BadSignature")
    ELSE IF token.sig # Sign(key, token.payload, token.iat, token.exp)
    THEN Raised("BadSignature")
    ELSE IF token.exp <= now THEN Raised("SignatureExpired")
    ELSE Returned(token.payload)

loadsNoExpiryCheck(key, token, now) ==
    IF token.kind # "jws" THEN Raised("BadSignature")
    ELSE IF token.sig # Sign(key, token.payload, token.iat, token.exp)
    THEN Raised("BadSignature")
    ELSE Returned(token.payload)

loads(key, token, now) ==
    IF token.kind # "jws" THEN Raised("BadSignature")
    ELSE IF token.sig # Sign(key, token.payload, token.iat, token.exp)
    THEN Raised("BadSignature")
    ELSE IF token.exp < now THEN Raised("SignatureExpired")
    ELSE Returned(token.payload)

\* ------------------------------------------------------------- user store
\* userstore.get_user(username): the user record, or None.
get_user(username) ==
    IF username \in StoreUsers THEN User(username) ELSE None

\* ------------------------------------------------------ TokenAuthenticator
\* token.py _get_auth_info_from_request, given the configured token header
\* name (the default is the same 'Authentication-Token').
token_get_auth_info_from_request(token_header_name, headers) ==
    LET token == HeaderGet(headers, token_header_name)
    IN  IF ~Truthy(token)
        THEN Raised("Authentication header not found on request")
        ELSE Returned(token)

\* The outcome of a provider call, with the usernames the call looked up in
\* the user store.
ProviderRaised(exc, lookups) == [ok |-> FALSE, exc |-> exc, lookups |-> lookups]
ProviderReturned(v, lookups) == [ok |-> TRUE, value |-> v, lookups |-> lookups]

\* TokenAuthenticator.authenticate(userstore) in a request with the given
\* headers, at time now.
TokenAuthenticator_authenticate(token_header_name, headers, now) ==
    LET got == token_get_auth_info_from_request(token_header_name, headers)
    IN  IF ~got.ok THEN ProviderRaised(got.exc, <<>>)
        ELSE
        LET open_token == loads(SecretKey, got.value, now)
        IN  IF ~open_token.ok
            THEN (IF open_token.exc = "SignatureExpired"
                  THEN ProviderRaised("token expired", <<>>)
                  ELSE ProviderRaised("invalid token", <<>>))
            ELSE
            LET username == open_token.value[USERNAME_FIELD]
            IN  IF username = ""
                THEN ProviderRaised("invalid token", <<>>)
                ELSE LET user == get_user(username)
                     IN  IF ~Truthy(user)
                         THEN ProviderRaised("user not found", <<username>>)
                         ELSE ProviderReturned(user, <<username>>)

\* What the orchestrator's call auth_provider.authenticate(auth_info,
\* userstore_driver) does on a TokenAuthenticator: authenticate is defined
\* with the single parameter userstore, so the call raises TypeError before
\* the body runs.
TokenAuthenticator_called_by_chain(headers, now) ==
    ProviderRaised("TypeError: authenticate() takes exactly 2 arguments (3 given)",
                   <<>>)

\* ------------------------------------------------------------------- state
VARIABLES
    phase,                          \* "setup" until the app serves requests
    secured_mode,                   \* app.config[SECURED_MODE]
    unauthorized_user_handler,      \* app.securest_unauthorized_user_handler is set
    authentication_providers,       \* app.securest_authentication_providers
    request_security_bypass_handler,\* app.request_security_bypass_handler is set
    got_first_request,              \* before_first_request functions were triggered
    now,                            \* the wall clock
    wallet,                         \* the token a client holds, or Absent
    pool,                           \* the worker threads that handle requests
    ctx_stack,                      \* _request_ctx_stack: per thread, its request contexts
    frame,                          \* per thread, the locals of wrapper and authenticate
    obs,                            \* per thread, what the current request did so far
    logger,                         \* app.securest_logger is set
    header_names,                   \* app.config: AUTH_HEADER_NAME, AUTH_TOKEN_HEADER_NAME
    last_register                   \* the last register_authentication_provider call seen by its caller

config == <<secured_mode, unauthorized_user_handler, authentication_providers,
            request_security_bypass_handler, logger, header_names, last_register>>
vars == <<phase, secured_mode, unauthorized_user_handler, authentication_providers,
          request_security_bypass_handler, got_first_request, now, wallet, pool,
          ctx_stack, frame, obs, logger, header_names, last_register>>

\* Objects handed to register_authentication_provider: two that inherit
\* AbstractAuthenticationProvider (an externally supplied password provider
\* and the TokenAuthenticator) and one that does not.
ProviderObjects == {"PasswordAuthenticator", "TokenAuthenticator", "NotAProvider"}
IsProvider(provider) == provider \in {"PasswordAuthenticator", "TokenAuthenticator"}

IdleFrame ==
    [pc |-> "idle", level |-> 0, auth_info |-> None, idx |-> 0, user |-> None,
     all_exceptions |-> <<>>, e |-> None]

NoObs ==
    [attempts |-> <<>>, provider_calls |-> 0, extractions |-> 0, unauthorized |-> 0,
     handler_runs |-> 0, binds |-> <<>>, auth |-> "none", message |-> <<>>,
     response |-> "none", seen |-> None, tokcall |-> None,
     body |-> None, log |-> <<>>, extracted |-> None, outside |-> None]

\* app.config without AUTH_HEADER_NAME and AUTH_TOKEN_HEADER_NAME entries:
\* config.get falls back to the module's defaults.
DefaultHeaderNames == [auth |-> AUTH_HEADER_NAME, token |-> AUTH_TOKEN_HEADER_NAME]

\* SecuREST.__init__
Init ==
    /\ phase = "setup"
    /\ secured_mode = TRUE
    /\ unauthorized_user_handler = FALSE
    /\ authentication_providers = <<>>
    /\ request_security_bypass_handler = FALSE
    /\ got_first_request = FALSE
    /\ now = 0
    /\ wallet = Absent
    /\ pool = {1}
    /\ ctx_stack = [t \in Threads |-> <<>>]
    /\ frame = [t \in Threads |-> IdleFrame]
    /\ obs = [t \in Threads |-> NoObs]
    /\ logger = FALSE
    /\ header_names = DefaultHeaderNames
    /\ last_register = None

\* ------------------------------------------------------------------- setup
\* The position of name in the ordered mapping, 0 if it is not a key.
KeyIndex(providers, name) ==
    IF \E i \in 1..Len(providers) : providers[i].name = name
    THEN CHOOSE i \in 1..Len(providers) : providers[i].name = name
    ELSE 0

\* OrderedDict.__setitem__: a new key is appended, an existing key keeps its
\* position and gets the new value.
OrderedDictSetMoveToEnd(providers, name, provider) ==
    Append(SelectSeq(providers, LAMBDA entry : entry.name # name),
           [name |-> name, provider |-> provider])

OrderedDictSet(providers, name, provider) ==
    LET i == KeyIndex(providers, name)
        entry == [name |-> name, provider |-> provider]
    IN  IF i = 0 THEN Append(providers, entry)
        ELSE [providers EXCEPT ![i] = entry]

\* SecuREST.register_authentication_provider raises: the object does not
\* inherit AbstractAuthenticationProvider.
register_authentication_provider_raises(provider) == ~IsProvider(provider)

\* SecuREST.register_authentication_provider. The caller's view of the call
\* (last_register) is left to the caller.
register_authentication_provider(name, provider) ==
    /\ phase = "setup"
    /\ authentication_providers' =
         IF register_authentication_provider_raises(provider)
         THEN authentication_providers
         ELSE OrderedDictSet(authentication_providers, name, provider)
    /\ UNCHANGED <<phase, secured_mode, unauthorized_user_handler,
                   request_security_bypass_handler, got_first_request, now, wallet,
                   pool, ctx_stack, frame, obs,
                   logger, header_names>>

\* SecuREST.unauthorized_user_handler setter
set_unauthorized_user_handler ==
    /\ phase = "setup"
    /\ unauthorized_user_handler' = TRUE
    /\ UNCHANGED <<phase, secured_mode, authentication_providers,
                   request_security_bypass_handler, got_first_request, now, wallet,
                   pool, ctx_stack, frame, obs,
                   logger, header_names, last_register>>

\* SecuREST.request_security_bypass_handler setter
set_request_security_bypass_handler ==
    /\ phase = "setup"
    /\ request_security_bypass_handler' = TRUE
    /\ UNCHANGED <<phase, secured_mode, unauthorized_user_handler,
                   authentication_providers, got_first_request, now, wallet, pool,
                   ctx_stack, frame, obs,
                   logger, header_names, last_register>>

\* app.config[SECURED_MODE] = False, by the operator
disable_secured_mode ==
    /\ phase = "setup"
    /\ secured_mode' = FALSE
    /\ UNCHANGED <<phase, unauthorized_user_handler, authentication_providers,
                   request_security_bypass_handler, got_first_request, now, wallet,
                   pool, ctx_stack, frame, obs,
                   logger, header_names, last_register>>

\* The app starts to serve requests: the configuration is read-only from here.
StartServing ==
    /\ phase = "setup"
    /\ phase' = "serving"
    /\ UNCHANGED <<config, got_first_request, now, wallet, pool, ctx_stack, frame, obs>>

\* --------------------------------------------------------- request context
\* The key under which the LocalStack keeps a thread's stack (get_ident).
IdentShared(t) == 1

Ident(t) == t

\* _get_request_context: the top of the calling thread's context stack.
_get_request_context_any(stack, t) ==
    IF \E u \in Threads : Len(stack[u]) > 0
    THEN LET u == CHOOSE u \in Threads :
                    Len(stack[u]) > 0 /\ (Len(stack[Ident(t)]) > 0 => u = Ident(t))
         IN  Returned(stack[u][Len(stack[u])])
    ELSE Raised("RuntimeError: working outside of request context")

_get_request_context(stack, t) ==
    LET s == stack[Ident(t)]
    IN  IF Len(s) = 0
        THEN Raised("RuntimeError: working outside of request context")
        ELSE Returned(s[Len(s)])

\* get_request_user: getattr(ctx, 'user'), with no default.
get_request_user(stack, t) ==
    LET ctx == _get_request_context(stack, t)
    IN  IF ~ctx.ok THEN ctx
        ELSE IF ctx.value.user.kind = "NoAttr"
        THEN Raised("AttributeError: user")
        ELSE Returned(ctx.value.user)

\* set_request_user: the stack after ctx.user = user (unchanged when it raises).
set_request_user(stack, t, user) ==
    LET s == stack[Ident(t)]
    IN  IF Len(s) = 0 THEN stack
        ELSE [stack EXCEPT ![Ident(t)] = [s EXCEPT ![Len(s)].user = user]]

\* What a call of set_request_user gives its caller: None, or the exception
\* of _get_request_context.
set_request_user_result(stack, t) ==
    LET ctx == _get_request_context(stack, t)
    IN  IF ctx.ok THEN Returned(None) ELSE ctx

\* The host pushes a request context when it starts to handle a request and
\* pops it when the request ends.
PushContext(stack, t, ctx) == [stack EXCEPT ![Ident(t)] = Append(@, ctx)]
PopContext(stack, t) ==
    [stack EXCEPT ![Ident(t)] = IF Len(@) = 0 THEN @ ELSE SubSeq(@, 1, Len(@) - 1)]

\* flask.request of thread t (defined while t handles a request).
Request(t) == _get_request_context(ctx_stack, t).value
InRequest(t) == _get_request_context(ctx_stack, t).ok

\* The operator's bypass predicate: it whitelists the health check.
BypassPredicate(request) == request.path = "/health"

\* _is_secured_request_context
IgnoresBypass(secured, bypass_set, request) == secured

_is_secured_request_context(secured, bypass_set, request) ==
    secured /\ ~(bypass_set /\ BypassPredicate(request))

\* validate_configuration (registered with before_first_request): TRUE when
\* it raises.
validate_configuration_raises(providers) == Len(providers) = 0

\* ------------------------------------------------------------------ inputs
Chars_u_s == <<"u", ":", "s">>
Chars_u == <<"u">>
Garbage == [kind |-> "garbage"]
Payload(username) == (USERNAME_FIELD :> username)

\* What an attacker can make of a token without the key: another subject in
\* the payload, a later exp in the header, a signature under another key.
Tamperings(w) ==
    IF w.kind # "jws" THEN {}
    ELSE {[w EXCEPT !.payload = Payload(n)] : n \in UserNames \ {w.payload[USERNAME_FIELD]}}
         \cup {[w EXCEPT !.exp = @ + 1]}
         \cup {[w EXCEPT !.sig = Sign(OtherKey, w.payload, w.iat, w.exp)]}

\* Decoded Basic credentials with a second ':' in the secret.
Chars_u_s_x == <<"u", ":", "s", ":", "x">>

\* Settings of the two header-name options: the default, another name, and
\* a name that is switched off.
AuthHeaderNames == {AUTH_HEADER_NAME, "X-Auth", ""}
TokenHeaderNames == {AUTH_TOKEN_HEADER_NAME, "X-Token", ""}
HeaderNameSettings == [auth : AuthHeaderNames, token : TokenHeaderNames]

\* Authorization values a client can send: well-formed Basic credentials,
\* credentials that do not base64-decode, and decoded text without ':'.
BasicValues ==
    {BasicHeader(BASIC_AUTH_PREFIX, TRUE, Chars_u_s),
     BasicHeader(BASIC_AUTH_PREFIX, TRUE, Chars_u_s_x),
     BasicHeader(BASIC_AUTH_PREFIX, TRUE, Chars_u),
     BasicHeader(BASIC_AUTH_PREFIX, FALSE, <<>>)}

\* The headers of a request that carries an Authorization value under one
\* of the names, or none, and a token under one of the names, or none.
HeadersUnder(auth_name, auth, token_name, tok) == (auth_name :> auth) @@ (token_name :> tok)
ClientHeaders ==
    {HeadersUnder(an, auth, tn, tok) :
       an \in AuthHeaderNames \ {""}, auth \in BasicValues \cup {Absent},
       tn \in TokenHeaderNames \ {""}, tok \in {Absent, Garbage}}

\* What an externally supplied provider can do when it is called.
ExtOutcomes ==
    {ProviderRaised("wrong password", <<>>),
     ProviderReturned(UserModelOnly, <<>>),
     ProviderReturned(None, <<>>)}
    \cup {ProviderReturned(User(n), <<>>) : n \in UserNames}

\* --------------------------------------------------------------- logging
\* log(logger, method, message): the entries the logger holds after the
\* call; nothing is written when no logger is set.
log(logger_set, entries, method, message) ==
    IF logger_set THEN Append(entries, [method |-> method, message |-> message])
    ELSE entries

\* The exceptions auth_required.wrapper catches: the one raised by
\* get_auth_info_from_request, and the aggregate raised by authenticate with
\* the text written to all_exceptions.
ExtractionError(exc) == [kind |-> "Exception", exc |-> exc]
AggregateError(all_exceptions) == [kind |-> "Exception", all_exceptions |-> all_exceptions]

\* The response of abort(401): werkzeug's Unauthorized, with its fixed body.
Unauthorized401 == [status |-> 401, description |-> "Unauthorized"]

\* ------------------------------------------------------ request handling
\* The host starts to handle a request on thread t: it pushes the request
\* context and triggers the before_first_request functions. Flask sets its
\* first-request flag before or after it calls them, depending on the
\* version, which shows only when validate_configuration raises.
BeginRequestWith(t, headersets, paths) ==
    /\ phase = "serving"
    /\ frame[t].pc = "idle"
    /\ \E headers \in headersets, path \in paths :
         ctx_stack' = PushContext(ctx_stack, t,
                        [headers |-> headers, path |-> path, user |-> NoAttr])
    /\ IF ~got_first_request /\ validate_configuration_raises(authentication_providers)
       THEN /\ got_first_request' \in BOOLEAN
            /\ frame' = [frame EXCEPT ![t].pc = "done"]
            /\ obs' = [obs EXCEPT ![t] = [NoObs EXCEPT !.response = "500"]]
       ELSE /\ got_first_request' = TRUE
            /\ frame' = [frame EXCEPT ![t].pc = "wrapper"]
            /\ obs' = [obs EXCEPT ![t] = NoObs]
    /\ UNCHANGED <<phase, config, now, wallet, pool>>

\* A request whose headers are under the default names.
BeginRequest(t, auths, toks, paths) ==
    BeginRequestWith(t, {Headers(auth, tok) : auth \in auths, tok \in toks}, paths)

\* auth_required.wrapper, entry: the gate _is_secured_request_context.
EnterWrapper(t) ==
    /\ frame[t].pc = "wrapper"
    /\ InRequest(t)
    /\ frame' = [frame EXCEPT
         ![t].level = @ + 1,
         ![t].pc = IF _is_secured_request_context(secured_mode,
                         request_security_bypass_handler, Request(t))
                   THEN "extract" ELSE "func"]
    /\ UNCHANGED <<phase, config, got_first_request, now, wallet, pool, ctx_stack, obs>>

\* auth_required.wrapper: auth_info = get_auth_info_from_request(), and the
\* first lines of authenticate. An exception goes to the wrapper's handler.
ExtractAuthInfo(t) ==
    /\ frame[t].pc = "extract"
    /\ InRequest(t)
    /\ LET got == get_auth_info_from_request(header_names.auth, header_names.token,
                                             Request(t).headers)
       IN  IF got.ok
           THEN /\ frame' = [frame EXCEPT ![t] =
                     [@ EXCEPT !.auth_info = got.value, !.idx = 1, !.user = None,
                               !.all_exceptions = <<>>,
                               !.pc = IF Len(authentication_providers) = 0
                                      THEN "auth_end" ELSE "chain"]]
                /\ obs' = [obs EXCEPT ![t].extractions = @ + 1, ![t].attempts = <<>>,
                                      ![t].auth = "chain", ![t].message = <<>>,
                                      ![t].extracted = got]
           ELSE /\ frame' = [frame EXCEPT ![t].pc = "unauthorized",
                                           ![t].e = ExtractionError(got.exc)]
                /\ obs' = [obs EXCEPT ![t].extractions = @ + 1, ![t].attempts = <<>>,
                                      ![t].auth = "noinfo", ![t].message = <<>>,
                                      ![t].extracted = got]
    /\ UNCHANGED <<phase, config, got_first_request, now, wallet, pool, ctx_stack>>

\* Whether authenticate takes a provider's outcome as a success: the value
\* is returned and user.username can be read for the log message.
Accepted(outcome) == outcome.ok /\ outcome.value.kind = "User"

\* authenticate: one iteration of the loop over the providers, for the
\* provider registered as auth_method and the outcome of its call; n is the
\* number of providers.
authenticate_step_no_break(f, auth_method, outcome, n) ==
    [f EXCEPT !.user = IF outcome.ok THEN outcome.value ELSE @,
              !.all_exceptions = IF Accepted(outcome) THEN @
                                 ELSE Append(@, <<auth_method,
                                        IF outcome.ok THEN "AttributeError: username"
                                        ELSE outcome.exc>>),
              !.idx = @ + 1,
              !.pc = IF f.idx + 1 > n THEN "auth_end" ELSE "chain"]

authenticate_step_last_reason(f, auth_method, outcome, n) ==
    IF Accepted(outcome)
    THEN [f EXCEPT !.user = outcome.value, !.pc = "auth_end"]
    ELSE [f EXCEPT !.user = IF outcome.ok THEN outcome.value ELSE @,
                   !.all_exceptions = <<<<auth_method,
                                          IF outcome.ok THEN "AttributeError: username"
                                          ELSE outcome.exc>>>>,
                   !.idx = @ + 1,
                   !.pc = IF f.idx + 1 > n THEN "auth_end" ELSE "chain"]

authenticate_step(f, auth_method, outcome, n) ==
    IF Accepted(outcome)
    THEN [f EXCEPT !.user = outcome.value, !.pc = "auth_end"]
    ELSE [f EXCEPT !.user = IF outcome.ok THEN outcome.value ELSE @,
                   !.all_exceptions = Append(@, <<auth_method,
                                          IF outcome.ok THEN "AttributeError: username"
                                          ELSE outcome.exc>>),
                   !.idx = @ + 1,
                   !.pc = IF f.idx + 1 > n THEN "auth_end" ELSE "chain"]

\* authenticate: the call of the next provider in the mapping.
CallProvider(t) ==
    /\ frame[t].pc = "chain"
    /\ InRequest(t)
    /\ LET entry == authentication_providers[frame[t].idx]
       IN  \E outcome \in
               IF entry.provider = "TokenAuthenticator"
               THEN {TokenAuthenticator_called_by_chain(Request(t).headers, now)}
               ELSE ExtOutcomes :
             /\ frame' = [frame EXCEPT ![t] =
                   authenticate_step(@, entry.name, outcome,
                                     Len(authentication_providers))]
             /\ obs' = [obs EXCEPT
                   ![t].attempts = Append(@, [name |-> entry.name,
                                              accepted |-> Accepted(outcome),
                                              outcome |-> outcome]),
                   ![t].provider_calls = @ + 1,
                   ![t].log = IF Accepted(outcome)
                              THEN log(logger, @, "info",
                                       [user |-> outcome.value.username,
                                        provider |-> entry.name])
                              ELSE @]
    /\ UNCHANGED <<phase, config, got_first_request, now, wallet, pool, ctx_stack>>

\* authenticate, after the loop: raise the aggregate or bind the user.
FinishAuthenticate(t) ==
    /\ frame[t].pc = "auth_end"
    /\ InRequest(t)
    /\ IF ~Truthy(frame[t].user)
       THEN /\ frame' = [frame EXCEPT ![t].pc = "unauthorized",
                                       ![t].e = AggregateError(frame[t].all_exceptions)]
            /\ obs' = [obs EXCEPT ![t].auth = "raised",
                                  ![t].message = frame[t].all_exceptions]
            /\ UNCHANGED ctx_stack
       ELSE /\ ctx_stack' = set_request_user(ctx_stack, t, frame[t].user)
            /\ frame' = [frame EXCEPT ![t].pc = "func"]
            /\ obs' = [obs EXCEPT ![t].auth = "bound",
                                  ![t].binds = Append(@, frame[t].user)]
    /\ UNCHANGED <<phase, config, got_first_request, now, wallet, pool>>

\* auth_required.wrapper, except branch: the error is logged, then
\* handle_unauthorized_user. A registered hook either raises (it aborts with
\* its own response) or returns, and the wrapper goes on to call func after
\* it returns; without a hook, abort(401).
HandleUnauthorizedLeaks(t) ==
    /\ frame[t].pc = "unauthorized"
    /\ ~unauthorized_user_handler
    /\ frame' = [frame EXCEPT ![t].pc = "done"]
    /\ obs' = [obs EXCEPT ![t].unauthorized = @ + 1, ![t].response = "401",
                          ![t].body = [status |-> 401, description |-> "Unauthorized",
                                        reasons |-> frame[t].e]]
    /\ UNCHANGED <<phase, config, got_first_request, now, wallet, pool, ctx_stack>>

HandleUnauthorized(t) ==
    /\ frame[t].pc = "unauthorized"
    /\ LET logged == log(logger, obs[t].log, "error",
                         [text |-> "User unauthorized, all authentication methods failed",
                          e |-> frame[t].e])
       IN  IF unauthorized_user_handler
           THEN \E hook_returns \in BOOLEAN :
                  IF hook_returns
                  THEN /\ frame' = [frame EXCEPT ![t].pc = "func"]
                       /\ obs' = [obs EXCEPT ![t].unauthorized = @ + 1,
                                             ![t].log = logged]
                  ELSE /\ frame' = [frame EXCEPT ![t].pc = "done"]
                       /\ obs' = [obs EXCEPT ![t].unauthorized = @ + 1,
                                             ![t].response = "hook",
                                             ![t].log = logged]
           ELSE /\ frame' = [frame EXCEPT ![t].pc = "done"]
                /\ obs' = [obs EXCEPT ![t].unauthorized = @ + 1,
                                      ![t].response = "401",
                                      ![t].body = Unauthorized401,
                                      ![t].log = logged]
    /\ UNCHANGED <<phase, config, got_first_request, now, wallet, pool, ctx_stack>>

\* auth_required.wrapper calls func, and func is itself an auth_required
\* wrapper (the decorator is stacked on the endpoint).
NestedWrapper(t) ==
    /\ frame[t].pc = "func"
    /\ frame[t].level < MaxDepth
    /\ frame' = [frame EXCEPT ![t].pc = "wrapper"]
    /\ UNCHANGED <<phase, config, got_first_request, now, wallet, pool, ctx_stack, obs>>

\* auth_required.wrapper calls func, the endpoint's handler. The handler
\* may read the request identity with get_request_user; an exception in the
\* handler ends the request with a server error.
RunHandler(t) ==
    /\ frame[t].pc = "func"
    /\ InRequest(t)
    /\ \E reads \in BOOLEAN :
         LET got == get_request_user(ctx_stack, t)
         IN  obs' = [obs EXCEPT
               ![t].handler_runs = @ + 1,
               ![t].seen = IF reads THEN got ELSE @,
               ![t].response = IF reads /\ ~got.ok THEN "500" ELSE "200"]
    /\ frame' = [frame EXCEPT ![t].pc = "done"]
    /\ UNCHANGED <<phase, config, got_first_request, now, wallet, pool, ctx_stack>>

\* TokenAuthenticator.generate_auth_token for the request user: the token,
\* or the exception raised when there is no request user or the user has no
\* username.
generate_auth_token(stack, t, clock) ==
    LET got == get_request_user(stack, t)
    IN  IF ~got.ok THEN got
        ELSE IF got.value.kind # "User" THEN Raised("AttributeError: username")
        ELSE Returned(dumps(SecretKey, ExpiresIn, Payload(got.value.username), clock))

\* The handler of the token endpoint: it answers with generate_auth_token(),
\* and the client keeps the token.
HandlerGenerateToken(t) ==
    /\ frame[t].pc = "func"
    /\ InRequest(t)
    /\ LET made == generate_auth_token(ctx_stack, t, now)
       IN  /\ wallet' = IF made.ok THEN made.value ELSE wallet
           /\ obs' = [obs EXCEPT ![t].handler_runs = @ + 1,
                                 ![t].response = IF made.ok THEN "200" ELSE "500"]
    /\ frame' = [frame EXCEPT ![t].pc = "done"]
    /\ UNCHANGED <<phase, config, got_first_request, now, pool, ctx_stack>>

\* A handler that calls TokenAuthenticator.authenticate(userstore) itself,
\* on the token of the request it handles.
HandlerTokenAuthenticate(t) ==
    /\ frame[t].pc = "func"
    /\ InRequest(t)
    /\ LET result == TokenAuthenticator_authenticate(header_names.token,
                                                     Request(t).headers, now)
       IN  obs' = [obs EXCEPT
             ![t].handler_runs = @ + 1,
             ![t].tokcall = [token |-> Request(t).headers[AUTH_TOKEN_HEADER_NAME],
                             at |-> now, result |-> result],
             ![t].response = IF result.ok THEN "200" ELSE "500"]
    /\ frame' = [frame EXCEPT ![t].pc = "done"]
    /\ UNCHANGED <<phase, config, got_first_request, now, wallet, pool, ctx_stack>>

\* Code that runs on thread t while the thread handles no request (no
\* request context is pushed for it) calls get_request_user or
\* set_request_user; its caller sees the result and whether any request
\* context changed.
CallOutsideRequest(t) ==
    /\ phase = "serving"
    /\ frame[t].pc = "idle"
    /\ \E op \in {"get_request_user", "set_request_user"} :
         /\ ctx_stack' = IF op = "set_request_user"
                         THEN set_request_user(ctx_stack, t, User("carol"))
                         ELSE ctx_stack
         /\ obs' = [obs EXCEPT ![t].outside =
               [op |-> op,
                result |-> IF op = "set_request_user"
                           THEN set_request_user_result(ctx_stack, t)
                           ELSE get_request_user(ctx_stack, t),
                changed |-> ctx_stack' # ctx_stack]]
    /\ UNCHANGED <<phase, config, got_first_request, now, wallet, pool, frame>>

\* The response is sent and the host pops the request context.
EndRequest(t) ==
    /\ frame[t].pc = "done"
    /\ ctx_stack' = PopContext(ctx_stack, t)
    /\ frame' = [frame EXCEPT ![t] = IdleFrame]
    /\ obs' = [obs EXCEPT ![t] = NoObs]
    /\ UNCHANGED <<phase, config, got_first_request, now, wallet, pool>>

\* A second passes.
Tick ==
    /\ phase = "serving"
    /\ now < MaxClock
    /\ now' = now + 1
    /\ UNCHANGED <<phase, config, got_first_request, wallet, pool, ctx_stack, frame, obs>>

\* ---------------------------------------------------------- specifications
Setup ==
    \/ \E name \in ProviderNames, provider \in ProviderObjects :
         register_authentication_provider(name, provider) /\ UNCHANGED last_register
    \/ set_unauthorized_user_handler
    \/ set_request_security_bypass_handler
    \/ disable_secured_mode
    \/ StartServing

\* The steps of the wrapper on a worker thread, from the gate to the response.
Handle ==
    \/ \E t \in pool : EnterWrapper(t)
    \/ \E t \in pool : ExtractAuthInfo(t)
    \/ \E t \in pool : CallProvider(t)
    \/ \E t \in pool : FinishAuthenticate(t)
    \/ \E t \in pool : HandleUnauthorized(t)
    \/ \E t \in pool : NestedWrapper(t)
    \/ \E t \in pool : RunHandler(t)
    \/ \E t \in pool : EndRequest(t)

\* Setup, then requests one at a time, with any configuration; a request
\* carries Basic credentials or not, and the client's token or not.
Next ==
    \/ Setup
    \/ \E t \in pool :
         BeginRequest(t, {Absent, BasicHeader(BASIC_AUTH_PREFIX, TRUE, Chars_u_s),
                          BasicHeader(BASIC_AUTH_PREFIX, TRUE, Chars_u)},
                      {Absent, wallet}, Paths)
    \/ Handle
    \/ \E t \in pool : HandlerGenerateToken(t)

Spec == Init /\ [][Next]_vars

\* The token provider over time: one password provider is registered, and
\* requests carry the client's token, an altered token, or none.
TokenInit ==
    /\ phase = "serving"
    /\ secured_mode = TRUE
    /\ unauthorized_user_handler = FALSE
    /\ authentication_providers = <<[name |-> "basic", provider |-> "PasswordAuthenticator"]>>
    /\ request_security_bypass_handler = FALSE
    /\ got_first_request = FALSE
    /\ now = 0
    /\ wallet = Absent
    /\ pool = {1}
    /\ ctx_stack = [t \in Threads |-> <<>>]
    /\ frame = [t \in Threads |-> IdleFrame]
    /\ obs = [t \in Threads |-> NoObs]
    /\ logger = FALSE
    /\ header_names = DefaultHeaderNames
    /\ last_register = None

TokenNext ==
    \/ Tick
    \/ \E t \in pool :
         BeginRequest(t, {Absent},
                      {Absent, Garbage, wallet} \cup Tamperings(wallet), {"/api"})
    \/ Handle
    \/ \E t \in pool : HandlerGenerateToken(t)
    \/ \E t \in pool : HandlerTokenAuthenticate(t)

TokenSpec == TokenInit /\ [][TokenNext]_vars

\* Two worker threads handle requests concurrently.
ConcInit ==
    /\ phase = "serving"
    /\ secured_mode = TRUE
    /\ unauthorized_user_handler = FALSE
    /\ authentication_providers = <<[name |-> "basic", provider |-> "PasswordAuthenticator"]>>
    /\ request_security_bypass_handler = FALSE
    /\ got_first_request = FALSE
    /\ now = 0
    /\ wallet = Absent
    /\ pool = {1, 2}
    /\ ctx_stack = [t \in Threads |-> <<>>]
    /\ frame = [t \in Threads |-> IdleFrame]
    /\ obs = [t \in Threads |-> NoObs]
    /\ logger = FALSE
    /\ header_names = DefaultHeaderNames
    /\ last_register = None

ConcNext ==
    \/ \E t \in pool :
         BeginRequest(t, {BasicHeader(BASIC_AUTH_PREFIX, TRUE, Chars_u_s)}, {Absent}, {"/api"})
    \/ Handle
    \/ \E t \in pool : CallOutsideRequest(t)

ConcSpec == ConcInit /\ [][ConcNext]_vars

\* Registration alone: any sequence of register_authentication_provider
\* calls, under three names. The caller of each call notes the call, whether
\* it raised, the mapping before it, and the names accepted so far in the
\* order of their first registration.
RegisterNames == ProviderNames \cup {"ldap"}

FirstRegistered == IF last_register = None THEN <<>> ELSE last_register.order

RegisterCall(name, provider) ==
    /\ register_authentication_provider(name, provider)
    /\ last_register' =
         [name |-> name, provider |-> provider,
          raised |-> register_authentication_provider_raises(provider),
          before |-> authentication_providers,
          order |-> IF register_authentication_provider_raises(provider)
                       \/ \E i \in 1..Len(FirstRegistered) : FirstRegistered[i] = name
                    THEN FirstRegistered
                    ELSE Append(FirstRegistered, name)]

RegisterNext ==
    \E name \in RegisterNames, provider \in ProviderObjects : RegisterCall(name, provider)

RegisterSpec == Init /\ [][RegisterNext]_vars

\* The engine under every setting of the header names, with a logger or
\* without: two password providers are registered, and requests carry any
\* of the client's headers.
ConfiguredInit ==
    /\ phase = "serving"
    /\ secured_mode = TRUE
    /\ unauthorized_user_handler = FALSE
    /\ authentication_providers = <<[name |-> "basic", provider |-> "PasswordAuthenticator"],
                                    [name |-> "token", provider |-> "PasswordAuthenticator"]>>
    /\ request_security_bypass_handler = FALSE
    /\ got_first_request = FALSE
    /\ now = 0
    /\ wallet = Absent
    /\ pool = {1}
    /\ ctx_stack = [t \in Threads |-> <<>>]
    /\ frame = [t \in Threads |-> IdleFrame]
    /\ obs = [t \in Threads |-> NoObs]
    /\ logger \in BOOLEAN
    /\ header_names \in HeaderNameSettings
    /\ last_register = None

ConfiguredNext ==
    \/ \E t \in pool : BeginRequestWith(t, ClientHeaders, {"/api"})
    \/ Handle

ConfiguredSpec == ConfiguredInit /\ [][ConfiguredNext]_vars

\* ------------------------------------------------------------------ claims
\* The ctx.user of the request thread t handles.
Slot(t) == Request(t).user
Secured(t) == secured_mode /\ ~(request_security_bypass_handler /\ Request(t).path = "/health")
ProviderCount == Len(authentication_providers)
Last(s) == s[Len(s)]

\* C1: authenticate calls the providers one at a time in registration order,
\* skipping none, and stops at the first one that returns a user: the calls
\* of one authenticate are a prefix of the mapping, a provider that returned
\* a user is the last one called, and the loop is left without a user only
\* after every provider was called.
C1_RegistrationOrderFirstSuccess ==
    \A t \in pool :
      LET a == obs[t].attempts
      IN  /\ Len(a) <= ProviderCount
          /\ \A i \in 1..Len(a) :
               /\ a[i].name = authentication_providers[i].name
               /\ (a[i].accepted => i = Len(a))
          /\ (frame[t].pc = "chain" => frame[t].idx = Len(a) + 1)
          /\ (Len(a) > 0 /\ Last(a).accepted =>
                /\ frame[t].pc # "chain"
                /\ frame[t].user = Last(a).outcome.value)
          /\ (frame[t].pc = "auth_end" /\ (Len(a) = 0 \/ ~Last(a).accepted) =>
                Len(a) = ProviderCount)

\* C1 witness: two providers are registered, the first returned a user, and
\* the request completed without a call of the second.
C1_Witness ==
    \E t \in pool :
      /\ ProviderCount = 2
      /\ frame[t].pc = "done"
      /\ Len(obs[t].attempts) = 1
      /\ obs[t].attempts[1].accepted
      /\ obs[t].handler_runs = 1

\* C2: in a secured request the handler runs only if authentication succeeded
\* and an identity was bound, and a request whose credential extraction or
\* whose chain failed ends with the unauthorized outcome and without a run of
\* the handler, whether or not an unauthorized hook is registered.
C2_HandlerOnlyWhenAuthenticated ==
    \A t \in pool :
      (InRequest(t) /\ Secured(t)) =>
        /\ (obs[t].handler_runs > 0 =>
              /\ obs[t].auth = "bound"
              /\ obs[t].unauthorized = 0
              /\ Slot(t) = Last(obs[t].binds))
        /\ (obs[t].unauthorized > 0 /\ frame[t].pc = "done" =>
              /\ obs[t].response \in {"401", "hook"}
              /\ obs[t].handler_runs = 0)

\* The reason authenticate records for a call it does not take as a success:
\* the provider's exception, or the AttributeError of reading username.
RecordedReason(outcome) ==
    IF outcome.ok THEN "AttributeError: username" ELSE outcome.exc
\* The provider's call yielded no user: it raised, or it returned None.
Failed(outcome) == ~outcome.ok \/ outcome.value = None

\* C3: when every registered provider fails (its authenticate raises or
\* returns no user), authenticate raises one aggregate failure whose message
\* holds one entry per provider, the provider's name with its own reason, in
\* registration order; and the wrapper's exception handler is reached only
\* from failed extraction or from that aggregate, never from one provider's
\* failure.
C3_AggregateOfEveryReason ==
    \A t \in pool :
      LET a == obs[t].attempts
      IN  /\ (/\ obs[t].auth \in {"raised", "bound"}
              /\ ProviderCount > 0
              /\ Len(a) = ProviderCount
              /\ \A i \in 1..Len(a) : Failed(a[i].outcome))
             => /\ obs[t].auth = "raised"
                /\ obs[t].message =
                     [i \in 1..ProviderCount |->
                        <<authentication_providers[i].name, RecordedReason(a[i].outcome)>>]
          /\ (frame[t].pc = "unauthorized" => obs[t].auth \in {"noinfo", "raised"})
          /\ (obs[t].auth = "chain" /\ Len(a) > 0 /\ Failed(Last(a).outcome) =>
                frame[t].pc \in {"chain", "auth_end"})

\* C3 witness: a password provider and the token provider are registered,
\* both raised, and authenticate raised the aggregate of the two reasons.
C3_Witness ==
    \E t \in pool :
      /\ ProviderCount = 2
      /\ authentication_providers[1].provider # authentication_providers[2].provider
      /\ obs[t].auth = "raised"
      /\ Len(obs[t].attempts) = 2
      /\ \A i \in 1..2 : ~obs[t].attempts[i].outcome.ok
      /\ Len(obs[t].message) = 2

\* A token the TokenAuthenticator accepts at time clock for a subject the
\* user store knows.
ValidTokenFor(token, clock) ==
    /\ token.kind = "jws"
    /\ token.sig = Sign(SecretKey, token.payload, token.iat, token.exp)
    /\ clock <= token.exp
    /\ token.payload[USERNAME_FIELD] \in StoreUsers

\* C4: a TokenAuthenticator in the chain is attempted like any other
\* provider: when the providers before it failed and the request carries a
\* valid, unexpired token for a subject the user store knows, the chain
\* succeeds at the token provider and binds that subject's user record.
C4_ChainSucceedsAtTokenProvider ==
    \A t \in pool :
      \A i \in 2..Len(obs[t].attempts) :
        (/\ authentication_providers[i].provider = "TokenAuthenticator"
         /\ ValidTokenFor(Request(t).headers[AUTH_TOKEN_HEADER_NAME], now))
        => /\ obs[t].attempts[i].accepted
           /\ frame[t].user =
                get_user(Request(t).headers[AUTH_TOKEN_HEADER_NAME].payload[USERNAME_FIELD])

\* C5: with the security flag off, or with a bypass predicate that is
\* registered and true for the request, the wrapper extracts no credentials,
\* calls no provider, binds no identity and never handles an unauthorized
\* user, and the handler runs.
C5_UnsecuredRequestSkipsAuthentication ==
    \A t \in pool :
      (InRequest(t) /\ (~secured_mode
                        \/ (request_security_bypass_handler /\ BypassPredicate(Request(t)))))
      => /\ obs[t].extractions = 0
         /\ obs[t].provider_calls = 0
         /\ obs[t].binds = <<>>
         /\ Slot(t) = NoAttr
         /\ obs[t].unauthorized = 0
         /\ frame[t].pc \in {"wrapper", "func", "done"}
         /\ (frame[t].pc = "done" /\ frame[t].level > 0 => obs[t].handler_runs = 1)

\* C5 witness: security is on, the bypass predicate is true for the request,
\* and the handler ran.
C5_Witness ==
    \E t \in pool :
      /\ InRequest(t)
      /\ secured_mode
      /\ request_security_bypass_handler
      /\ Request(t).path = "/health"
      /\ ProviderCount > 0
      /\ frame[t].pc = "done"
      /\ obs[t].handler_runs = 1

\* The calls of TokenAuthenticator.authenticate made so far in the requests
\* being handled: the token presented, the time, and the result.
TokenCalls == {obs[t].tokcall : t \in {u \in pool : obs[u].tokcall # None}}
\* The token carries the signature the server's key gives its payload and header.
SignedByServer(token) ==
    token.sig = Sign(SecretKey, token.payload, token.iat, token.exp)
Subject(token) == token.payload[USERNAME_FIELD]

\* C6: round trip: a token generate_auth_token produced for a subject the
\* user store knows, presented to TokenAuthenticator.authenticate under the
\* same secret at any time within the expiry window, makes authenticate
\* return the user the store resolves for that subject.
C6_RoundTrip ==
    \A c \in TokenCalls :
      (/\ c.token.kind = "jws"
       /\ SignedByServer(c.token)
       /\ Subject(c.token) # ""
       /\ Truthy(get_user(Subject(c.token)))
       /\ c.at - c.token.iat <= ExpiresIn)
      => /\ c.result.ok
         /\ c.result.value = get_user(Subject(c.token))
         /\ c.result.value = User(Subject(c.token))

\* C6 witness: a token of a known subject is presented in the last second of
\* its expiry window, and authenticate returns the subject's user.
C6_Witness ==
    \E c \in TokenCalls :
      /\ c.token.kind = "jws"
      /\ SignedByServer(c.token)
      /\ Subject(c.token) = "bob"
      /\ c.at = c.token.iat + ExpiresIn
      /\ c.result.ok

\* C7: a token with a valid signature that is verified later than
\* issuedAt + expirySeconds fails with 'token expired' and yields no user;
\* the expiry is the server's configured value, and a token is accepted only
\* while now - issuedAt <= expirySeconds.
C7_ExpiredTokenRejected ==
    \A c \in TokenCalls :
      /\ (c.token.kind = "jws" /\ SignedByServer(c.token) /\ c.at > c.token.iat + ExpiresIn)
           => c.result = ProviderRaised("token expired", <<>>)
      /\ (c.result.ok => /\ c.token.kind = "jws"
                         /\ c.at - c.token.iat <= ExpiresIn)

\* C7 witness: a token of a known subject with a valid signature is presented
\* one second after its expiry and rejected as expired.
C7_Witness ==
    \E c \in TokenCalls :
      /\ c.token.kind = "jws"
      /\ SignedByServer(c.token)
      /\ Subject(c.token) = "alice"
      /\ c.at = c.token.iat + ExpiresIn + 1
      /\ c.result.exc = "token expired"

\* C8 as claimed: a token whose payload or signature was altered after
\* issuance, or whose payload has no subject identifier, fails with
\* 'invalid token', also when it is past expiry, and the user store is
\* never consulted for it.
C8_Original_AlwaysInvalidToken ==
    \A c \in TokenCalls :
      (c.token.kind = "jws" /\ (~SignedByServer(c.token) \/ Subject(c.token) = ""))
      => c.result = ProviderRaised("invalid token", <<>>)

\* C8 as amended: an altered token fails with 'invalid token' at any time; a
\* token with a valid signature and no subject identifier fails with
\* 'invalid token' while it is unexpired and with 'token expired' once it is
\* past expiry; the user store is consulted in none of these cases.
C8_InvalidTokenUnlessExpired ==
    \A c \in TokenCalls :
      /\ (c.token.kind = "jws" /\ ~SignedByServer(c.token))
           => c.result = ProviderRaised("invalid token", <<>>)
      /\ (c.token.kind = "jws" /\ SignedByServer(c.token) /\ Subject(c.token) = "")
           => c.result = ProviderRaised(IF c.at > c.token.exp THEN "token expired"
                                        ELSE "invalid token", <<>>)

\* C8 witness: a token whose subject was altered to a known one is presented
\* past its expiry and rejected as invalid.
C8_Witness ==
    \E c \in TokenCalls :
      /\ c.token.kind = "jws"
      /\ ~SignedByServer(c.token)
      /\ Subject(c.token) = "alice"
      /\ c.token.sig.payload # c.token.payload
      /\ c.at > c.token.exp
      /\ c.result = ProviderRaised("invalid token", <<>>)

\* C9: with requests handled concurrently, get_request_user in a request
\* returns only the user that request bound: it raises while the request
\* has bound none, and what a handler read is the user its own request bound.
C9_IdentityIsPerRequest ==
    \A t \in pool :
      frame[t].pc # "idle" =>
        /\ get_request_user(ctx_stack, t) =
             IF obs[t].binds = <<>> THEN Raised("AttributeError: user")
             ELSE Returned(Last(obs[t].binds))
        /\ (obs[t].seen # None /\ obs[t].seen.ok =>
              /\ obs[t].binds # <<>>
              /\ obs[t].seen.value = Last(obs[t].binds))

\* C9 witness: two requests are in their handlers at the same time, bound to
\* different users.
C9_Witness ==
    /\ \A t \in {1, 2} : t \in pool /\ frame[t].pc = "func"
    /\ get_request_user(ctx_stack, 1) = Returned(User("alice"))
    /\ get_request_user(ctx_stack, 2) = Returned(User("bob"))

\* C10: the identity slot is written at most once in a request: after a bind,
\* a second set_request_user in the same request is rejected and the first
\* binding stays in place.
C10_BoundAtMostOnce ==
    \A t \in pool :
      obs[t].binds # <<>> =>
        /\ Len(obs[t].binds) = 1
        /\ get_request_user(ctx_stack, t) = Returned(obs[t].binds[1])

\* C11: with an empty provider mapping, configuration validation fails
\* before any request is served: in every run, no wrapped handler is ever
\* executed and no request, the first or a later one, reaches authenticate.
C11_NoRequestServedWithoutProviders ==
    \A t \in pool :
      (phase = "serving" /\ ProviderCount = 0) =>
        /\ obs[t].handler_runs = 0
        /\ obs[t].auth \in {"none", "noinfo"}

\* C12: with no unauthorized hook registered, every request whose
\* authentication failed gets the same response, the fixed 401, whichever
\* providers were tried and whatever reasons they gave: the response is a
\* constant and carries nothing of the caught exception, and the handler
\* does not run.
C12_UniformUnauthorizedResponse ==
    \A t \in pool :
      /\ obs[t].body \in {None, Unauthorized401}
      /\ (~unauthorized_user_handler /\ obs[t].unauthorized > 0) =>
            /\ frame[t].pc = "done"
            /\ obs[t].response = "401"
            /\ obs[t].body = Unauthorized401
            /\ obs[t].handler_runs = 0
      /\ (~unauthorized_user_handler /\ obs[t].auth \in {"noinfo", "raised"}) =>
            frame[t].pc \in {"unauthorized", "done"}

\* C12 witness: no hook is registered, two providers were tried and failed
\* with different reasons, and the request was answered with the 401.
C12_Witness ==
    \E t \in pool :
      /\ ~unauthorized_user_handler
      /\ obs[t].auth = "raised"
      /\ Len(obs[t].message) = 2
      /\ obs[t].message[1][2] # obs[t].message[2][2]
      /\ frame[t].e = AggregateError(obs[t].message)
      /\ obs[t].response = "401"
      /\ obs[t].body = Unauthorized401

\* What the request of thread t carries under a configured header name:
\* None when the header is absent or the name is switched off.
Carried(t, name) == HeaderGet(Request(t).headers, name)
\* An Authorization value that decodes to text without a ':'.
NoColon(auth) == Truthy(auth) /\ auth.b64ok /\ Len(split(auth.text, ":")) < 2

\* C13: for every setting of the two header-name options,
\* get_auth_info_from_request fails with the missing-credentials failure
\* when the request carries neither configured header, and when the
\* configured token header is present the call returns credentials whose
\* token field is the header's raw value.
C13_MissingCredentialsForEverySetting ==
    \A t \in pool :
      obs[t].extracted # None =>
        LET auth == Carried(t, header_names.auth)
            tok == Carried(t, header_names.token)
        IN  /\ (~Truthy(auth) /\ ~Truthy(tok)) =>
                  obs[t].extracted = Raised("headers not found")
            /\ (Truthy(tok) /\ ~NoColon(auth)) =>
                  /\ obs[t].extracted.ok
                  /\ obs[t].extracted.value.token = tok

\* An Authorization value that does not base64-decode.
Undecodable(auth) == Truthy(auth) /\ ~auth.b64ok

\* C15: a malformed Basic header (undecodable base64, or decoded text with
\* no ':') never makes extraction fail: get_auth_info_from_request returns
\* credentials with user_id and password absent and with the token field
\* holding the configured token header's value.
C15_MalformedBasicTolerated ==
    \A t \in pool :
      (/\ obs[t].extracted # None
       /\ header_names.auth # ""
       /\ (Undecodable(Carried(t, header_names.auth))
             \/ NoColon(Carried(t, header_names.auth))))
      => obs[t].extracted =
           Returned(AuthInfo(None, None, Carried(t, header_names.token)))

\* The position of the first sep in s, 0 when s has none.
FirstIndex(s, sep) ==
    IF \E i \in 1..Len(s) : s[i] = sep
    THEN CHOOSE i \in 1..Len(s) : s[i] = sep /\ \A j \in 1..(i - 1) : s[j] # sep
    ELSE 0

\* C16: for a Basic header whose decoded text holds a ':', extraction
\* splits on the first ':' only: user_id is the text before it and password
\* is all of the text after it, further ':' characters included.
C16_SplitOnFirstColonOnly ==
    \A t \in pool :
      LET auth == Carried(t, header_names.auth)
      IN  (/\ obs[t].extracted # None
           /\ header_names.auth # ""
           /\ Truthy(auth)
           /\ auth.b64ok
           /\ FirstIndex(auth.text, ":") > 0)
          => LET k == FirstIndex(auth.text, ":")
             IN  /\ obs[t].extracted.ok
                 /\ obs[t].extracted.value.user_id = Str(SubSeq(auth.text, 1, k - 1))
                 /\ obs[t].extracted.value.password =
                      Str(SubSeq(auth.text, k + 1, Len(auth.text)))

\* C14: get_request_user and set_request_user called outside an active
\* request-handling scope fail with the no-active-request-context error and
\* change no identity slot, of no request.
C14_OutsideRequestContextFails ==
    \A t \in pool :
      obs[t].outside # None =>
        /\ obs[t].outside.result = Raised("RuntimeError: working outside of request context")
        /\ ~obs[t].outside.changed

\* C14 witness: while another thread's request has its identity bound,
\* set_request_user was called on a thread that handles no request, and it
\* failed.
C14_Witness ==
    \E t \in pool, u \in pool :
      /\ t # u
      /\ frame[t].pc = "idle"
      /\ obs[t].outside # None
      /\ obs[t].outside.op = "set_request_user"
      /\ ~obs[t].outside.result.ok
      /\ frame[u].pc = "func"
      /\ obs[u].binds # <<>>
      /\ get_request_user(ctx_stack, u) = Returned(Last(obs[u].binds))

\* The provider failures, as (name, reason), that the log entries written
\* for the request of thread t hold.
LoggedReasons(t) ==
    UNION {IF entry.method = "error" /\ "all_exceptions" \in DOMAIN entry.message.e
           THEN {entry.message.e.all_exceptions[i] :
                   i \in 1..Len(entry.message.e.all_exceptions)}
           ELSE {} :
           entry \in {obs[t].log[k] : k \in 1..Len(obs[t].log)}}

\* C17: with a logger configured, once authenticate has finished for a
\* request, the reason of every provider that failed for it is in the log,
\* both when all providers failed and when a later provider succeeded
\* (returned a user that authenticate accepted).
C17_EveryFailureReasonLogged ==
    \A t \in pool :
      (/\ logger
       /\ obs[t].auth \in {"raised", "bound"}
       /\ (obs[t].auth = "bound" => Last(obs[t].attempts).accepted)
       /\ frame[t].pc \in {"func", "done"})
      => \A i \in 1..Len(obs[t].attempts) :
           ~obs[t].attempts[i].accepted =>
             <<obs[t].attempts[i].name, RecordedReason(obs[t].attempts[i].outcome)>>
               \in LoggedReasons(t)

\* C18: inside an active request in which no identity has been bound (a
\* bypassed request, security disabled, or before authentication),
\* get_request_user returns the absent value and does not fail, and that
\* is what a handler that reads the identity gets.
C18_AbsentIdentityReadable ==
    \A t \in pool :
      (InRequest(t) /\ obs[t].binds = <<>> /\ obs[t].unauthorized = 0) =>
        /\ get_request_user(ctx_stack, t) = Returned(None)
        /\ (obs[t].seen # None => obs[t].seen = Returned(None))

\* C19: authenticate binds an identity if and only if some attempted
\* provider completed without a recorded failure, and the bound user is the
\* value returned by the provider at which the chain stopped; when every
\* attempted provider has a recorded failure (a provider whose returned
\* value is rejected included), the aggregate of the recorded failures is
\* raised and the identity slot is left as it was.
C19_BindsIffUnrecordedSuccess ==
    \A t \in pool :
      obs[t].auth \in {"raised", "bound"} =>
        LET a == obs[t].attempts
            success == \E i \in 1..Len(a) : a[i].accepted
        IN  /\ (obs[t].auth = "bound") <=> success
            /\ success =>
                  /\ Last(a).accepted
                  /\ Last(obs[t].binds) = Last(a).outcome.value
            /\ ~success =>
                  /\ obs[t].auth = "raised"
                  /\ obs[t].message =
                       [i \in 1..Len(a) |-> <<a[i].name, RecordedReason(a[i].outcome)>>]
                  /\ Slot(t) = IF obs[t].binds = <<>> THEN NoAttr ELSE Last(obs[t].binds)

\* The keys of the mapping, in its order.
Names(providers) == [i \in 1..Len(providers) |-> providers[i].name]

====
